---- MODULE Spec2Model ----
(***************************************************************************)
(* Weekly meal planner (app.py): the ingredient-amount parser, the         *)
(* consolidator and formatter of the shopping list, and the session state  *)
(* of the Streamlit page.                                                  *)
(*                                                                         *)
(* A Python str is a sequence of characters; a character is a one-letter   *)
(* TLA+ string (a code point outside ASCII is written "U+00BD").  A        *)
(* Fraction is a pair <<numerator, denominator>> in lowest terms with a    *)
(* positive denominator.  Python's None is the empty tuple, which is also  *)
(* the empty str: the code tests both only by truthiness or by `is None`   *)
(* on values that are never the empty str.                                 *)
(***************************************************************************)
EXTENDS Integers, Sequences, FiniteSets, TLC

VARIABLES
    pc,               \* position of the computation being modelled
    amount_str,       \* parse_amount: its argument
    parsed,           \* parse_amount: what it returned (or raised)
    entries,          \* shopping_temp[dept][name]: the parsed entries of one ingredient
    convertible_totals, same_unit_group, raw_ones, parts,   \* consolidate_entries' locals
    display_amount,   \* shopping_final[dept][name]
    options, temp_selection, finalized, meal_plan           \* st.session_state

vars == <<pc, amount_str, parsed, entries, convertible_totals, same_unit_group,
          raw_ones, parts, display_amount, options, temp_selection, finalized, meal_plan>>

parseVars == <<amount_str, parsed>>
shopVars == <<entries, convertible_totals, same_unit_group, raw_ones, parts, display_amount>>
uiVars == <<options, temp_selection, finalized, meal_plan>>

None == <<>>

(***************************************************************************)
(* Characters and str methods                                              *)
(***************************************************************************)
Digits == <<"0", "1", "2", "3", "4", "5", "6", "7", "8", "9">>
UpperCase == <<"A","B","C","D","E","F","G","H","I","J","K","L","M",
               "N","O","P","Q","R","S","T","U","V","W","X","Y","Z", "U+00C2">>
LowerCase == <<"a","b","c","d","e","f","g","h","i","j","k","l","m",
               "n","o","p","q","r","s","t","u","v","w","x","y","z", "U+00E2">>

IsDigit(c) == \E i \in 1..10 : Digits[i] = c
DigitVal(c) == (CHOOSE i \in 1..10 : Digits[i] = c) - 1
IsSpace(c) == c \in {" ", "\t"}
\* \w of the re module: letters, digits and the underscore
IsWordChar(c) ==
    \/ IsDigit(c)
    \/ c = "_"
    \/ \E i \in 1..Len(LowerCase) : LowerCase[i] = c \/ UpperCase[i] = c

LowerChar(c) ==
    IF \E i \in 1..Len(UpperCase) : UpperCase[i] = c
    THEN LowerCase[CHOOSE i \in 1..Len(UpperCase) : UpperCase[i] = c]
    ELSE c
lower(s) == [i \in 1..Len(s) |-> LowerChar(s[i])]

\* str.strip(): without the leading and trailing whitespace
strip(s) ==
    IF \A i \in 1..Len(s) : IsSpace(s[i]) THEN <<>>
    ELSE LET first == CHOOSE i \in 1..Len(s) :
                          ~IsSpace(s[i]) /\ \A j \in 1..(i-1) : IsSpace(s[j])
             last == CHOOSE i \in 1..Len(s) :
                          ~IsSpace(s[i]) /\ \A j \in (i+1)..Len(s) : IsSpace(s[j])
         IN SubSeq(s, first, last)

\* str.rstrip('.,')
RECURSIVE rstrip_dot_comma(_)
rstrip_dot_comma(s) ==
    IF s # <<>> /\ s[Len(s)] \in {".", ","}
    THEN rstrip_dot_comma(SubSeq(s, 1, Len(s) - 1))
    ELSE s

\* w occurs in s at index i
OccursAt(s, i, w) ==
    /\ i >= 1
    /\ i + Len(w) - 1 <= Len(s)
    /\ \A k \in 1..Len(w) : s[i + k - 1] = w[k]

\* `w in s`
Contains(s, w) == \E i \in 1..(Len(s) + 1) : OccursAt(s, i, w)

\* str.replace(k, v), k non-empty: every occurrence, left to right
RECURSIVE replace(_, _, _)
replace(s, k, v) ==
    IF s = <<>> THEN <<>>
    ELSE IF OccursAt(s, 1, k) THEN v \o replace(SubSeq(s, Len(k) + 1, Len(s)), k, v)
    ELSE <<Head(s)>> \o replace(Tail(s), k, v)

\* str(int) for an int >= 0
RECURSIVE IntToStr(_)
IntToStr(n) ==
    IF n < 10 THEN <<Digits[n + 1]>>
    ELSE IntToStr(n \div 10) \o <<Digits[(n % 10) + 1]>>

\* int(s) for a str of digits
RECURSIVE StrToInt(_)
StrToInt(s) ==
    IF s = <<>> THEN 0
    ELSE 10 * StrToInt(SubSeq(s, 1, Len(s) - 1)) + DigitVal(s[Len(s)])

RECURSIVE Pow10(_)
Pow10(k) == IF k = 0 THEN 1 ELSE 10 * Pow10(k - 1)

\* the elements of a list of str joined by sep
RECURSIVE join(_, _)
join(sep, list) ==
    IF list = <<>> THEN <<>>
    ELSE IF Len(list) = 1 THEN list[1]
    ELSE list[1] \o sep \o join(sep, Tail(list))

(***************************************************************************)
(* fractions.Fraction                                                      *)
(***************************************************************************)
Abs(n) == IF n < 0 THEN 0 - n ELSE n

RECURSIVE GCD(_, _)
GCD(a, b) == IF b = 0 THEN a ELSE GCD(b, a % b)

\* Fraction(n, d), d # 0: lowest terms, positive denominator
Frac(n, d) ==
    LET g == GCD(Abs(n), Abs(d))
        sgn == IF d < 0 THEN 0 - 1 ELSE 1
    IN <<(sgn * n) \div g, (sgn * d) \div g>>

FracAdd(a, b) == Frac(a[1] * b[2] + b[1] * a[2], a[2] * b[2])
FracSub(a, b) == Frac(a[1] * b[2] - b[1] * a[2], a[2] * b[2])
FracMulInt(a, k) == Frac(a[1] * k, a[2])
FracDivInt(a, k) == Frac(a[1], a[2] * k)
FracGEInt(a, k) == a[1] >= k * a[2]
FracFromInt(k) == <<k, 1>>

\* str(Fraction) for a Fraction >= 0: "n" when the denominator is 1, else "n/d"
FracToStr(f) ==
    IF f[2] = 1 THEN IntToStr(f[1])
    ELSE IntToStr(f[1]) \o <<"/">> \o IntToStr(f[2])

(***************************************************************************)
(* Tables                                                                  *)
(***************************************************************************)
\* each entry is <<key, value>>; the loop of replace_unicode_fractions follows this order
UNICODE_FRAC_MAP ==
    << << <<"U+00C2", "U+00BD">>, <<"1", "/", "2">> >>,
       << <<"U+00C2", "U+00BC">>, <<"1", "/", "4">> >>,
       << <<"U+00C2", "U+00BE">>, <<"3", "/", "4">> >>,
       << <<"U+00E2", "U+2026", "U+201C">>, <<"1", "/", "3">> >>,
       << <<"U+00E2", "U+2026", "U+201D">>, <<"2", "/", "3">> >>,
       << <<"U+00E2", "U+2026", "U+203A">>, <<"1", "/", "8">> >> >>

\* each entry is <<key, value>>
UNIT_ALIASES ==
    << <<<<"c","u","p","s">>, <<"c","u","p">>>>,
       <<<<"c","u","p">>, <<"c","u","p">>>>,
       <<<<"c">>, <<"c","u","p">>>>,
       <<<<"t","a","b","l","e","s","p","o","o","n","s">>, <<"t","b","s","p">>>>,
       <<<<"t","a","b","l","e","s","p","o","o","n">>, <<"t","b","s","p">>>>,
       <<<<"t","b","s","p">>, <<"t","b","s","p">>>>,
       <<<<"t","b","s","p",".">>, <<"t","b","s","p">>>>,
       <<<<"t","b","s">>, <<"t","b","s","p">>>>,
       <<<<"t","e","a","s","p","o","o","n","s">>, <<"t","s","p">>>>,
       <<<<"t","e","a","s","p","o","o","n">>, <<"t","s","p">>>>,
       <<<<"t","s","p">>, <<"t","s","p">>>>,
       <<<<"t","s","p",".">>, <<"t","s","p">>>>,
       <<<<"o","u","n","c","e","s">>, <<"o","z">>>>,
       <<<<"o","u","n","c","e">>, <<"o","z">>>>,
       <<<<"o","z">>, <<"o","z">>>>,
       <<<<"g","r","a","m","s">>, <<"g">>>>,
       <<<<"g","r","a","m">>, <<"g">>>>,
       <<<<"g">>, <<"g">>>>,
       <<<<"k","i","l","o","g","r","a","m","s">>, <<"k","g">>>>,
       <<<<"k","g">>, <<"k","g">>>>,
       <<<<"m","i","l","l","i","l","i","t","e","r","s">>, <<"m","l">>>>,
       <<<<"m","l">>, <<"m","l">>>>,
       <<<<"l","i","t","e","r","s">>, <<"l">>>>,
       <<<<"l">>, <<"l">>>>,
       <<<<"l","a","r","g","e">>, <<"l","a","r","g","e">>>>,
       <<<<"s","m","a","l","l">>, <<"s","m","a","l","l">>>>,
       <<<<"c","a","n">>, <<"c","a","n">>>>,
       <<<<"c","a","n","s">>, <<"c","a","n">>>>,
       <<<<"s","l","i","c","e">>, <<"s","l","i","c","e">>>>,
       <<<<"s","l","i","c","e","s">>, <<"s","l","i","c","e">>>>,
       <<<<"c","l","o","v","e">>, <<"c","l","o","v","e">>>>,
       <<<<"c","l","o","v","e","s">>, <<"c","l","o","v","e">>>>,
       <<<<"p","i","n","c","h">>, <<"p","i","n","c","h">>>>,
       <<<<"p","a","c","k","a","g","e">>, <<"p","a","c","k","a","g","e">>>>,
       <<<<"p","a","c","k","a","g","e","s">>, <<"p","a","c","k","a","g","e">>>> >>

\* UNIT_ALIASES.get(unit_raw, unit_raw)
UnitAliasesGet(unit_raw) ==
    IF \E i \in 1..Len(UNIT_ALIASES) : UNIT_ALIASES[i][1] = unit_raw
    THEN UNIT_ALIASES[CHOOSE i \in 1..Len(UNIT_ALIASES) : UNIT_ALIASES[i][1] = unit_raw][2]
    ELSE unit_raw

cup == <<"c", "u", "p">>
tbsp == <<"t", "b", "s", "p">>
tsp == <<"t", "s", "p">>
CONVERTIBLE_TO_TBSP == {cup, tbsp, tsp}

\* the markers of a descriptive amount
NON_QUANTITY_KEYWORDS ==
    { <<"t","o"," ","t","a","s","t","e">>,
      <<"a","s"," ","n","e","e","d","e","d">>,
      <<"o","p","t","i","o","n","a","l">>,
      <<"f","o","r"," ","s","e","r","v","i","n","g">> }

\* WORD_TO_INT: the i-th word stands for i; the order is that of the pattern's alternatives
WORD_TO_INT ==
    << <<"o","n","e">>, <<"t","w","o">>, <<"t","h","r","e","e">>, <<"f","o","u","r">>,
       <<"f","i","v","e">>, <<"s","i","x">>, <<"s","e","v","e","n">>, <<"e","i","g","h","t">>,
       <<"n","i","n","e">>, <<"t","e","n">> >>

(***************************************************************************)
(* parse_amount                                                            *)
(***************************************************************************)
RECURSIVE replace_all_from(_, _)
replace_all_from(s, i) ==
    IF i > Len(UNICODE_FRAC_MAP) THEN s
    ELSE replace_all_from(replace(s, UNICODE_FRAC_MAP[i][1], UNICODE_FRAC_MAP[i][2]), i + 1)

replace_unicode_fractions(s) == replace_all_from(s, 1)

\* the length of the longest run of digits (of whitespace) of s that starts at index i
DigitRun(s, i) ==
    LET stop == CHOOSE j \in i..(Len(s) + 1) :
                    /\ \A k \in i..(j - 1) : IsDigit(s[k])
                    /\ (j = Len(s) + 1 \/ ~IsDigit(s[j]))
    IN stop - i
SpaceRun(s, i) ==
    LET stop == CHOOSE j \in i..(Len(s) + 1) :
                    /\ \A k \in i..(j - 1) : IsSpace(s[k])
                    /\ (j = Len(s) + 1 \/ ~IsSpace(s[j]))
    IN stop - i

\* The length of group 1 of ^(\d+\s+\d+/\d+|\d+/\d+|\d+(\.\d+)?)(.*)$ on s, 0 when the
\* pattern does not match.  (.*)$ matches any rest that holds no newline, so the first
\* alternative that matches at the start is the one taken.
NumberMatch(s) ==
    LET d1 == DigitRun(s, 1)
        w == SpaceRun(s, d1 + 1)
        d2 == DigitRun(s, d1 + w + 1)
        slashM == d1 + w + d2 + 1
        d3 == DigitRun(s, slashM + 1)
        slashF == d1 + 1
        e2 == DigitRun(s, slashF + 1)
        f2 == DigitRun(s, d1 + 2)
    IN IF d1 = 0 THEN 0
       ELSE IF w > 0 /\ d2 > 0 /\ slashM <= Len(s) /\ s[slashM] = "/" /\ d3 > 0
            THEN slashM + d3
       ELSE IF slashF <= Len(s) /\ s[slashF] = "/" /\ e2 > 0
            THEN slashF + e2
       ELSE IF d1 + 1 <= Len(s) /\ s[d1 + 1] = "." /\ f2 > 0
            THEN d1 + 1 + f2
       ELSE d1

AllDigits(t) == t # <<>> /\ \A i \in 1..Len(t) : IsDigit(t[i])

\* t is digits "." digits
IsDecimalStr(t) ==
    \E i \in 2..(Len(t) - 1) :
        /\ t[i] = "."
        /\ AllDigits(SubSeq(t, 1, i - 1))
        /\ AllDigits(SubSeq(t, i + 1, Len(t)))

\* t is digits "/" digits
IsRatioStr(t) ==
    \E i \in 2..(Len(t) - 1) :
        /\ t[i] = "/"
        /\ AllDigits(SubSeq(t, 1, i - 1))
        /\ AllDigits(SubSeq(t, i + 1, Len(t)))

SepIndex(t, c) == CHOOSE i \in 1..Len(t) : t[i] = c

\* the exact value of digits "." digits
DecimalValue(t) ==
    LET i == SepIndex(t, ".")
        fracDigits == SubSeq(t, i + 1, Len(t))
    IN Frac(StrToInt(SubSeq(t, 1, i - 1)) * Pow10(Len(fracDigits)) + StrToInt(fracDigits),
            Pow10(Len(fracDigits)))

\* Fraction(t) for the strings group 1 can hold: digits, digits/digits and digits.digits
\* are accepted (a zero denominator raises ZeroDivisionError); a mixed number, having
\* whitespace inside, raises ValueError
FractionOfStr(t) ==
    IF AllDigits(t) THEN [exc |-> "none", val |-> FracFromInt(StrToInt(t))]
    ELSE IF IsRatioStr(t)
         THEN LET i == SepIndex(t, "/")
                  n == StrToInt(SubSeq(t, 1, i - 1))
                  d == StrToInt(SubSeq(t, i + 1, Len(t)))
              IN IF d = 0 THEN [exc |-> "ZeroDivisionError", val |-> None]
                 ELSE [exc |-> "none", val |-> Frac(n, d)]
    ELSE IF IsDecimalStr(t) THEN [exc |-> "none", val |-> DecimalValue(t)]
    ELSE [exc |-> "ValueError", val |-> None]

\* Fraction(float(t)): float accepts digits and digits.digits and raises ValueError for
\* the other forms of group 1.  (The value stands for the nearest double; no string that
\* reaches this call makes float succeed.)
FractionOfFloatOfStr(t) ==
    IF AllDigits(t) THEN [exc |-> "none", val |-> FracFromInt(StrToInt(t))]
    ELSE IF IsDecimalStr(t) THEN [exc |-> "none", val |-> DecimalValue(t)]
    ELSE [exc |-> "ValueError", val |-> None]

\* number_to_qty with a first handler that is `except ValueError`: the
\* ZeroDivisionError of a zero denominator leaves parse_amount
number_to_qty_narrow(num_str) ==
    LET first == FractionOfStr(num_str)
        second == FractionOfFloatOfStr(num_str)
    IN IF first.exc = "none" THEN first
       ELSE IF first.exc # "ValueError" THEN first
       ELSE IF second.exc = "none" THEN second
       ELSE [exc |-> "none", val |-> None]

\* the try/except of parse_amount: both handlers are `except Exception`
number_to_qty(num_str) ==
    LET first == FractionOfStr(num_str)
        second == FractionOfFloatOfStr(num_str)
    IN IF first.exc = "none" THEN first
       ELSE IF second.exc = "none" THEN second
       ELSE [exc |-> "none", val |-> None]

\* [^\s,;()]
IsTokenChar(c) == ~IsSpace(c) /\ c \notin {",", ";", "(", ")"}

TokenRun(s, i) ==
    LET stop == CHOOSE j \in i..(Len(s) + 1) :
                    /\ \A k \in i..(j - 1) : IsTokenChar(s[k])
                    /\ (j = Len(s) + 1 \/ ~IsTokenChar(s[j]))
    IN stop - i

\* (?:\([^)]*\)\s*)* from index i: the index after the parenthesised groups
RECURSIVE SkipParens(_, _)
SkipParens(s, i) ==
    IF i <= Len(s) /\ s[i] = "(" /\ \E j \in (i + 1)..Len(s) : s[j] = ")"
    THEN LET close == CHOOSE j \in (i + 1)..Len(s) :
                          s[j] = ")" /\ \A k \in (i + 1)..(j - 1) : s[k] # ")"
         IN SkipParens(s, close + 1 + SpaceRun(s, close + 1))
    ELSE i

\* the unit of the rest of an amount: the first token after the parenthesised groups,
\* without its trailing '.' and ',', through the alias table; None when there is none
unit_of_rest(rest) ==
    LET start == SkipParens(rest, 1)
        n == TokenRun(rest, start)
        unit_raw == rstrip_dot_comma(SubSeq(rest, start, start + n - 1))
    IN IF unit_raw # <<>> THEN UnitAliasesGet(unit_raw) ELSE None

\* ^(one|two|...|ten)\b(.*)$ : the number of the word s starts with, 0 when none
WordNumMatch(s) ==
    LET hits == {i \in 1..Len(WORD_TO_INT) :
                    /\ OccursAt(s, 1, WORD_TO_INT[i])
                    /\ (Len(s) = Len(WORD_TO_INT[i])
                        \/ ~IsWordChar(s[Len(WORD_TO_INT[i]) + 1]))}
    IN IF hits = {} THEN 0 ELSE CHOOSE i \in hits : \A j \in hits : i <= j

Returned(qty, unit, rest) == [exc |-> "none", qty |-> qty, unit |-> unit, rest |-> rest]
Raised(exc) == [exc |-> exc, qty |-> None, unit |-> None, rest |-> None]

parse_amount(amount) ==
    IF amount = <<>> THEN Returned(None, None, <<>>)
    ELSE
    LET s == strip(lower(replace_unicode_fractions(strip(amount))))
        m == NumberMatch(s)
        num_str == strip(SubSeq(s, 1, m))
        numRest == strip(SubSeq(s, m + 1, Len(s)))
        q == number_to_qty(num_str)
        wn == WordNumMatch(s)
        wordRest == strip(SubSeq(s, Len(WORD_TO_INT[wn]) + 1, Len(s)))
    IN IF s = <<>> \/ \E kw \in NON_QUANTITY_KEYWORDS : Contains(s, kw)
       THEN Returned(None, None, s)
       ELSE IF m > 0
            THEN IF q.exc # "none" THEN Raised(q.exc)
                 ELSE Returned(q.val, unit_of_rest(numRest), numRest)
       ELSE IF wn > 0
            THEN Returned(FracFromInt(wn), unit_of_rest(wordRest), wordRest)
       ELSE Returned(None, None, s)

(***************************************************************************)
(* Conversion and formatting                                               *)
(***************************************************************************)
\* to_tbsp with the teaspoon factor upside down
to_tbsp_tsp_times_3(qty, unit) ==
    IF qty = None \/ unit = <<>> THEN None
    ELSE IF lower(unit) = cup THEN FracMulInt(qty, 16)
    ELSE IF lower(unit) = tbsp THEN qty
    ELSE IF lower(unit) = tsp THEN FracMulInt(qty, 3)
    ELSE None

\* to_tbsp without its teaspoon case
to_tbsp_without_tsp(qty, unit) ==
    IF qty = None \/ unit = <<>> THEN None
    ELSE IF lower(unit) = cup THEN FracMulInt(qty, 16)
    ELSE IF lower(unit) = tbsp THEN qty
    ELSE None

to_tbsp(qty, unit) ==
    IF qty = None \/ unit = <<>> THEN None
    ELSE IF lower(unit) = cup THEN FracMulInt(qty, 16)
    ELSE IF lower(unit) = tbsp THEN qty
    ELSE IF lower(unit) = tsp THEN FracDivInt(qty, 3)
    ELSE None

frac_to_mixed_string(fr) ==
    LET sign == IF fr[1] < 0 THEN <<"-">> ELSE <<>>
        a == <<Abs(fr[1]), fr[2]>>
        whole == a[1] \div a[2]
        remainder == FracSub(a, FracFromInt(whole))
    IN IF fr[1] = 0 THEN <<"0">>
       ELSE IF whole # 0 /\ remainder[1] # 0
            THEN sign \o IntToStr(whole) \o <<" ">> \o FracToStr(remainder)
       ELSE IF whole # 0 /\ remainder[1] = 0
            THEN sign \o IntToStr(whole)
       ELSE sign \o FracToStr(remainder)

\* format_tbsp_total with `>` for `>=` in both tests
format_tbsp_total_strict(total_tbsp) ==
    IF FracGEInt(total_tbsp, 16) /\ total_tbsp # <<16, 1>>
    THEN frac_to_mixed_string(FracDivInt(total_tbsp, 16)) \o <<" ">> \o cup
    ELSE IF FracGEInt(total_tbsp, 1) /\ total_tbsp # <<1, 1>>
         THEN frac_to_mixed_string(total_tbsp) \o <<" ">> \o tbsp
    ELSE frac_to_mixed_string(FracMulInt(total_tbsp, 3)) \o <<" ">> \o tsp

format_tbsp_total(total_tbsp) ==
    IF FracGEInt(total_tbsp, 16)
    THEN frac_to_mixed_string(FracDivInt(total_tbsp, 16)) \o <<" ">> \o cup
    ELSE IF FracGEInt(total_tbsp, 1)
         THEN frac_to_mixed_string(total_tbsp) \o <<" ">> \o tbsp
    ELSE frac_to_mixed_string(FracMulInt(total_tbsp, 3)) \o <<" ">> \o tsp

(***************************************************************************)
(* consolidate_entries                                                     *)
(***************************************************************************)
\* same_unit_group[unit] = qty: the last quantity in place of the sum
group_add_overwrite(group, unit, qty) ==
    IF \E i \in 1..Len(group) : group[i][1] = unit
    THEN LET i == CHOOSE k \in 1..Len(group) : group[k][1] = unit
         IN [group EXCEPT ![i] = <<unit, qty>>]
    ELSE Append(group, <<unit, qty>>)

\* same_unit_group[unit] += qty on a defaultdict(Fraction): a dict keeps its keys in the
\* order of their insertion, so it is a sequence of <<unit, total>>
group_add(group, unit, qty) ==
    IF \E i \in 1..Len(group) : group[i][1] = unit
    THEN LET i == CHOOSE k \in 1..Len(group) : group[k][1] = unit
         IN [group EXCEPT ![i] = <<unit, FracAdd(group[i][2], qty)>>]
    ELSE Append(group, <<unit, FracAdd(FracFromInt(0), qty)>>)

\* one pass of `for e in entries`
separate_entry(acc, e) ==
    IF e.qty # None /\ e.unit \in CONVERTIBLE_TO_TBSP
    THEN IF to_tbsp(e.qty, e.unit) # None
         THEN [acc EXCEPT !.convertible_totals = Append(@, to_tbsp(e.qty, e.unit))]
         ELSE [acc EXCEPT !.raw_ones = Append(@, e.raw)]
    ELSE IF e.qty # None /\ e.unit # <<>>
         THEN [acc EXCEPT !.same_unit_group = group_add(@, e.unit, e.qty)]
    ELSE [acc EXCEPT !.raw_ones = Append(@, e.raw)]

RECURSIVE separate_entries(_, _)
separate_entries(acc, es) ==
    IF es = <<>> THEN acc
    ELSE separate_entries(separate_entry(acc, Head(es)), Tail(es))

\* a total that keeps the last converted quantity in place of the sum
sum_from_last(start, list) ==
    IF list = <<>> THEN start ELSE list[Len(list)]

\* sum(convertible_totals, Fraction(0))
RECURSIVE sum_from(_, _)
sum_from(start, list) ==
    IF list = <<>> THEN start
    ELSE sum_from(FracAdd(start, Head(list)), Tail(list))

\* the loop over same_unit_group.items()
group_parts(group) ==
    [i \in 1..Len(group) |-> frac_to_mixed_string(group[i][2]) \o <<" ">> \o group[i][1]]

\* the raw leftovers without the empty ones, repeats kept
RECURSIVE uniq_of_keep_repeats(_, _)
uniq_of_keep_repeats(uniq, raws) ==
    IF raws = <<>> THEN uniq
    ELSE IF Head(raws) # <<>>
         THEN uniq_of_keep_repeats(Append(uniq, Head(raws)), Tail(raws))
    ELSE uniq_of_keep_repeats(uniq, Tail(raws))

\* the raw leftovers without the empty ones and the repeats
RECURSIVE uniq_of(_, _)
uniq_of(uniq, raws) ==
    IF raws = <<>> THEN uniq
    ELSE IF Head(raws) # <<>> /\ \A i \in 1..Len(uniq) : uniq[i] # Head(raws)
         THEN uniq_of(Append(uniq, Head(raws)), Tail(raws))
    ELSE uniq_of(uniq, Tail(raws))

\* the " + " between the terms
PLUS == <<" ", "+", " ">>

\* build_parts with the raw leftovers put first
build_parts_raw_first(acc) ==
    LET volume == IF acc.convertible_totals # <<>>
                  THEN <<format_tbsp_total(sum_from(FracFromInt(0), acc.convertible_totals))>>
                  ELSE <<>>
        uniq == uniq_of(<<>>, acc.raw_ones)
        raw == IF acc.raw_ones # <<>> /\ uniq # <<>> THEN <<join(PLUS, uniq)>> ELSE <<>>
    IN raw \o volume \o group_parts(acc.same_unit_group)

build_parts(acc) ==
    LET volume == IF acc.convertible_totals # <<>>
                  THEN <<format_tbsp_total(sum_from(FracFromInt(0), acc.convertible_totals))>>
                  ELSE <<>>
        uniq == uniq_of(<<>>, acc.raw_ones)
        raw == IF acc.raw_ones # <<>> /\ uniq # <<>> THEN <<join(PLUS, uniq)>> ELSE <<>>
    IN volume \o group_parts(acc.same_unit_group) \o raw

\* the locals of consolidate_entries when it returns, and the str it returns
consolidate_entries(es) ==
    LET acc == separate_entries(
                   [convertible_totals |-> <<>>, same_unit_group |-> <<>>, raw_ones |-> <<>>],
                   es)
        ps == build_parts(acc)
    IN [convertible_totals |-> acc.convertible_totals,
        same_unit_group |-> acc.same_unit_group,
        raw_ones |-> acc.raw_ones,
        parts |-> ps,
        result |-> IF ps # <<>> THEN join(PLUS, ps) ELSE <<>>]

(***************************************************************************)
(* Bounds and inputs                                                       *)
(***************************************************************************)
\* the largest number written in a generated amount
MaxNum == 3
\* the most recipes of one plan that list the same ingredient
MaxEntries == 3

\* numeric literals with their mathematical value
IntLits == {[text |-> IntToStr(n), val |-> <<n, 1>>] : n \in 0..MaxNum}
RatioLits ==
    {[text |-> IntToStr(n) \o <<"/">> \o IntToStr(d), val |-> Frac(n, d)] :
        n \in 0..MaxNum, d \in 1..MaxNum}
MixedLits ==
    {[text |-> IntToStr(w) \o <<" ">> \o IntToStr(n) \o <<"/">> \o IntToStr(d),
      val |-> Frac(w * d + n, d)] :
        w \in 0..MaxNum, n \in 0..MaxNum, d \in 1..MaxNum}
DecimalLits ==
    {[text |-> IntToStr(a) \o <<".">> \o IntToStr(b),
      val |-> Frac(a * Pow10(Len(IntToStr(b))) + b, Pow10(Len(IntToStr(b))))] :
        a \in 0..MaxNum, b \in 0..MaxNum}
ValidLits == IntLits \cup RatioLits \cup MixedLits \cup DecimalLits

\* literals the grammar matches that have no value: a zero denominator
ZeroDenLits ==
    {IntToStr(n) \o <<"/", "0">> : n \in 0..MaxNum}
    \cup {IntToStr(w) \o <<" ">> \o IntToStr(n) \o <<"/", "0">> : w \in 0..MaxNum, n \in 0..MaxNum}

AliasKeys == {UNIT_ALIASES[i][1] : i \in 1..Len(UNIT_ALIASES)}
InputUnits == AliasKeys \cup {<<>>, <<"e","g","g","s">>}
InputSeps == {<<>>, <<" ">>}
InputTails == {<<>>, <<",", " ", "s", "i", "f", "t", "e", "d">>}

SpecialAmounts ==
    { <<>>,
      <<" ", " ">>,
      <<"a"," ","p","i","n","c","h"," ","o","f"," ","s","a","l","t">>,
      <<"s","a","l","t"," ","t","o"," ","t","a","s","t","e">>,
      <<"o","n","e"," ","l","a","r","g","e"," ","e","g","g">>,
      <<"t","e","n"," ","c","l","o","v","e","s",","," ","m","i","n","c","e","d">>,
      <<"o","n","e","s">>,
      <<"2"," ","(","8"," ","o","z",")"," ","c","a","n","s">>,
      <<"2"," ","(","8"," ","o","z">>,
      <<"1"," ","C","u","p">>,
      <<"o","p","t","i","o","n","a","l",":"," ","1"," ","c","u","p">>,
      <<" "," ","2"," ","t","b","s","p"," ">>,
      <<"U+00C2","U+00BD"," ","c","u","p">>,
      <<"1","U+00C2","U+00BD"," ","c","u","p","s">>,
      <<"2",".">> }

\* ing.get("amount") values given to parse_amount one at a time
ParseInputs ==
    {l \o sep \o u \o tail :
        l \in {x.text : x \in ValidLits} \cup ZeroDenLits,
        sep \in InputSeps, u \in InputUnits, tail \in InputTails}
    \cup SpecialAmounts

\* ing.get("amount") values of the recipes of a plan that list one ingredient
ShopAmounts ==
    { <<"2"," ","c","u","p","s">>,
      <<"4"," ","t","b","s","p">>,
      <<"1"," ","c","u","p">>,
      <<"2"," ","t","b","s","p">>,
      <<"3"," ","t","s","p">>,
      <<"1"," ","t","s","p">>,
      <<"1"," ","l","a","r","g","e"," ","e","g","g">>,
      <<"2"," ","l","a","r","g","e"," ","e","g","g","s">>,
      <<"3"," ","c","l","o","v","e","s">>,
      <<"a"," ","p","i","n","c","h"," ","o","f"," ","s","a","l","t">>,
      <<"3","/","0"," ","c","u","p">>,
      <<"2">>,
      <<>> }

(***************************************************************************)
(* Building the shopping list                                              *)
(***************************************************************************)
NoSession ==
    /\ options = <<>>
    /\ temp_selection = <<>>
    /\ finalized = FALSE
    /\ meal_plan = <<>>

NoShopping ==
    /\ entries = <<>>
    /\ convertible_totals = <<>>
    /\ same_unit_group = <<>>
    /\ raw_ones = <<>>
    /\ parts = <<>>
    /\ display_amount = None

\* the dict appended to shopping_temp[dept][name]
Entry(amount_raw, p) == [raw |-> amount_raw, qty |-> p.qty, unit |-> p.unit, rest |-> p.rest]

\* qty, unit, rest = parse_amount(amount_raw); an exception ends the script run
ParseAmount ==
    /\ pc = "parse"
    /\ parsed' = parse_amount(amount_str)
    /\ pc' = IF parsed'.exc = "none" THEN "parsed" ELSE "raised"
    /\ UNCHANGED <<amount_str, shopVars, uiVars>>

\* shopping_temp[dept][name].append({...}) with the values just parsed
AppendParsed ==
    /\ pc = "parsed"
    /\ entries' = Append(entries, Entry(amount_str, parsed))
    /\ pc' = "collecting"
    /\ UNCHANGED <<parseVars, convertible_totals, same_unit_group, raw_ones, parts,
                   display_amount, uiVars>>

\* one pass of the loop over the ingredients of the plan's recipes, for one more recipe
\* that lists the ingredient
AddIngredient(amount_raw) ==
    /\ pc = "collecting"
    /\ Len(entries) < MaxEntries
    /\ LET p == parse_amount(amount_raw)
       IN IF p.exc = "none"
          THEN entries' = Append(entries, Entry(amount_raw, p)) /\ pc' = "collecting"
          ELSE entries' = entries /\ pc' = "raised"
    /\ UNCHANGED <<parseVars, convertible_totals, same_unit_group, raw_ones, parts,
                   display_amount, uiVars>>

\* display_amount = consolidate_entries(entries); shopping_final[dept][name] = display_amount
Consolidate ==
    /\ pc = "collecting"
    /\ entries # <<>>
    /\ LET r == consolidate_entries(entries)
       IN /\ convertible_totals' = r.convertible_totals
          /\ same_unit_group' = r.same_unit_group
          /\ raw_ones' = r.raw_ones
          /\ parts' = r.parts
          /\ display_amount' = r.result
    /\ pc' = "done"
    /\ UNCHANGED <<parseVars, entries, uiVars>>

\* one amount parsed, then consolidated alone
InitParse ==
    /\ pc = "parse"
    /\ amount_str \in ParseInputs
    /\ parsed = None
    /\ NoShopping
    /\ NoSession
NextParse == ParseAmount \/ AppendParsed \/ Consolidate
SpecParse == InitParse /\ [][NextParse]_vars

\* the amounts of one ingredient collected over the plan's recipes, then consolidated
Init ==
    /\ pc = "collecting"
    /\ amount_str = <<>>
    /\ parsed = None
    /\ NoShopping
    /\ NoSession
Next == (\E a \in ShopAmounts : AddIngredient(a)) \/ Consolidate
Spec == Init /\ [][Next]_vars

(***************************************************************************)
(* The page: st.session_state over the script runs of one session          *)
(***************************************************************************)
DAYS == <<"sunday", "sunday meal prep", "monday", "tuesday", "wednesday", "thursday">>
DaySet == {DAYS[i] : i \in 1..Len(DAYS)}

\* the recipes of the largest category of the catalog
PoolSize == 3

\* a recipe of recipes.json: what tells it from the others, and its "title" (which a
\* recipe may lack)
MissingTitle == "<no title>"
Recipe(id, title) == [id |-> id, title |-> title]

\* categories_map of a catalog with a category of PoolSize recipes (two titles among
\* them), one of one recipe, one of two recipes (one without a title) and three empty
categories_map ==
    [day \in DaySet |->
        CASE day = "sunday" ->
                 [i \in 1..PoolSize |-> Recipe(i, IF i % 2 = 1 THEN "Pasta" ELSE "Curry")]
          [] day = "monday" -> <<Recipe(101, "Soup")>>
          [] day = "tuesday" -> <<Recipe(201, "Stew"), Recipe(202, MissingTitle)>>
          [] OTHER -> <<>>]

\* random.sample(pool, 2) when the pool holds two recipes or more, else pool[:]
DayOptions(pool) ==
    IF Len(pool) >= 2
    THEN {<<pool[i], pool[j]>> : i \in 1..Len(pool), j \in 1..Len(pool)} \
             {<<pool[i], pool[i]>> : i \in 1..Len(pool)}
    ELSE {pool}

\* [o.get("title", "Untitled") for o in options]
titles_of(opts) ==
    [i \in 1..Len(opts) |->
        IF opts[i].title = MissingTitle THEN "Untitled" ELSE opts[i].title]

TitleSet(opts) == {titles_of(opts)[i] : i \in 1..Len(opts)}

\* The loop that shows the choices: each day with options stores its one title, or the
\* value of its radio, in temp_selection.  radio[day] is what st.radio returns.
show_choices(opts, sel, radio) ==
    IF DOMAIN opts = {} THEN sel
    ELSE [day \in DOMAIN sel \cup {d \in DaySet : opts[d] # <<>>} |->
             IF opts[day] = <<>> THEN sel[day]
             ELSE IF Len(opts[day]) = 1 THEN titles_of(opts[day])[1]
             ELSE radio[day]]

\* What the radio of a day returns in the run that follows Generate: the selection was
\* emptied, so the index falls back to 0; a radio whose key is kept may still hold the
\* title chosen before when the new options have it.  "-" stands for no radio shown.
radio_after_generate(opts, before, day) ==
    IF Len(opts[day]) = 2
    THEN {titles_of(opts[day])[1]}
         \cup (IF day \in DOMAIN before THEN {before[day]} \cap TitleSet(opts[day]) ELSE {})
    ELSE {"-"}

\* the sequences that take their i-th element from the i-th set
RECURSIVE AllTuples(_)
AllTuples(sets) ==
    IF sets = <<>> THEN {<<>>}
    ELSE {<<h>> \o t : h \in Head(sets), t \in AllTuples(Tail(sets))}

\* a dict keyed by the days, from the values in the order of DAYS
ByDay(values) == [day \in DaySet |-> values[CHOOSE i \in 1..Len(DAYS) : DAYS[i] = day]]

\* next((r for r in opt_list if r.get("title") == chosen_title), None), as a list of
\* at most one recipe
chosen_recipe(opt_list, chosen_title) ==
    LET hits == {i \in 1..Len(opt_list) :
                    opt_list[i].title # MissingTitle /\ opt_list[i].title = chosen_title}
    IN IF hits = {} THEN <<>>
       ELSE <<opt_list[CHOOSE i \in hits : \A j \in hits : i <= j]>>

\* the plan built by Finalize Plan
build_plan(opts, sel) ==
    [day \in {d \in DOMAIN sel : chosen_recipe(opts[d], sel[d]) # <<>>} |->
        chosen_recipe(opts[day], sel[day])[1]]

\* Generate without `st.session_state.meal_plan = {}`
Generate_keeps_plan(new_options, radio) ==
    /\ pc = "page"
    /\ \A d \in DaySet : new_options[d] \in DayOptions(categories_map[d])
    /\ \A d \in DaySet : radio[d] \in radio_after_generate(new_options, temp_selection, d)
    /\ options' = new_options
    /\ temp_selection' = show_choices(new_options, <<>>, radio)
    /\ finalized' = FALSE
    /\ meal_plan' = meal_plan
    /\ UNCHANGED <<pc, parseVars, shopVars>>

\* a click on Generate Meal Plan: the button's block, then the rest of the script run
Generate(new_options, radio) ==
    /\ pc = "page"
    /\ \A d \in DaySet : new_options[d] \in DayOptions(categories_map[d])
    /\ \A d \in DaySet : radio[d] \in radio_after_generate(new_options, temp_selection, d)
    /\ options' = new_options
    /\ temp_selection' = show_choices(new_options, <<>>, radio)
    /\ finalized' = FALSE
    /\ meal_plan' = <<>>
    /\ UNCHANGED <<pc, parseVars, shopVars>>

GenerateMealPlan ==
    \E o \in AllTuples([i \in 1..Len(DAYS) |-> DayOptions(categories_map[DAYS[i]])]) :
        \E r \in AllTuples([i \in 1..Len(DAYS) |->
                               radio_after_generate(ByDay(o), temp_selection, DAYS[i])]) :
            Generate(ByDay(o), ByDay(r))

\* a click on Reset: the state is cleared and st.rerun() runs the script again, which
\* shows no choices
Reset ==
    /\ pc = "page"
    /\ options' = <<>>
    /\ temp_selection' = show_choices(<<>>, <<>>, <<>>)
    /\ finalized' = FALSE
    /\ meal_plan' = <<>>
    /\ UNCHANGED <<pc, parseVars, shopVars>>

\* another title picked on the radio of a day: a script run in which no button is down
SelectRadio(day, title) ==
    /\ pc = "page"
    /\ DOMAIN options # {}
    /\ Len(options[day]) = 2
    /\ title \in TitleSet(options[day])
    /\ title # temp_selection[day]
    /\ temp_selection' =
           show_choices(options, temp_selection, [temp_selection EXCEPT ![day] = title])
    /\ UNCHANGED <<pc, options, finalized, meal_plan, parseVars, shopVars>>

\* a click on Finalize Plan, which is shown only when there are options
Finalize ==
    /\ pc = "page"
    /\ DOMAIN options # {}
    /\ temp_selection' = show_choices(options, temp_selection, temp_selection)
    /\ meal_plan' = build_plan(options, temp_selection')
    /\ finalized' = TRUE
    /\ UNCHANGED <<pc, options, parseVars, shopVars>>

\* `if st.session_state.finalized and st.session_state.meal_plan`: the shopping list is built
ShoppingListBuilt == finalized /\ DOMAIN meal_plan # {}

InitUI ==
    /\ pc = "page"
    /\ amount_str = <<>>
    /\ parsed = None
    /\ NoShopping
    /\ options = <<>>
    /\ temp_selection = <<>>
    /\ finalized = FALSE
    /\ meal_plan = <<>>
NextUI ==
    \/ GenerateMealPlan
    \/ Reset
    \/ \E day \in DaySet : \E title \in {"Pasta", "Curry", "Stew", "Untitled"} :
           SelectRadio(day, title)
    \/ Finalize
SpecUI == InitUI /\ [][NextUI]_vars

(***************************************************************************)
(* What the entries of an ingredient are, read off the entries themselves  *)
(***************************************************************************)
VolumeUnits == {cup, tbsp, tsp}
IsVolumeEntry(e) == e.qty # None /\ e.unit \in VolumeUnits
IsUnitEntry(e) == e.qty # None /\ e.unit # None /\ e.unit \notin VolumeUnits
IsUnparsedEntry(e) == e.qty = None \/ e.unit = None

VolumeIdx(es) == {i \in 1..Len(es) : IsVolumeEntry(es[i])}
UnitIdx(es) == {i \in 1..Len(es) : IsUnitEntry(es[i])}
UnparsedIdx(es) == {i \in 1..Len(es) : IsUnparsedEntry(es[i])}

\* the indices of a set in increasing order
RECURSIVE Ascending(_)
Ascending(S) ==
    IF S = {} THEN <<>>
    ELSE LET m == CHOOSE i \in S : \A j \in S : i <= j
         IN <<m>> \o Ascending(S \ {m})

\* a volume entry in tablespoons: 1 cup = 16 tbsp, 1 tsp = 1/3 tbsp
ExactTbsp(e) ==
    CASE e.unit = cup -> <<e.qty[1] * 16, e.qty[2]>>
      [] e.unit = tbsp -> e.qty
      [] e.unit = tsp -> <<e.qty[1], e.qty[2] * 3>>

\* the rational a/b + c/d, and equality of rationals that need not be in lowest terms
RatPlus(x, y) == <<x[1] * y[2] + y[1] * x[2], x[2] * y[2]>>
RatEq(x, y) == x[1] * y[2] = y[1] * x[2]

RECURSIVE RatSum(_)
RatSum(list) ==
    IF list = <<>> THEN <<0, 1>> ELSE RatPlus(Head(list), RatSum(Tail(list)))

ExactVolumeSum(es) ==
    LET idx == Ascending(VolumeIdx(es))
    IN RatSum([k \in 1..Len(idx) |-> ExactTbsp(es[idx[k]])])
UnitsOf(es) == {es[i].unit : i \in UnitIdx(es)}
UnitSum(es, u) ==
    LET idx == Ascending({i \in UnitIdx(es) : es[i].unit = u})
    IN RatSum([k \in 1..Len(idx) |-> es[idx[k]].qty])
Lowest(x) == Frac(x[1], x[2])

\* the units of the unit entries in the order each is first met
UnitsInEncounterOrder(es) ==
    LET firsts == {i \in UnitIdx(es) : \A j \in UnitIdx(es) : j < i => es[j].unit # es[i].unit}
        order == Ascending(firsts)
    IN [k \in 1..Len(order) |-> es[order[k]].unit]

\* the distinct non-empty raw strings of the unparsed entries, each at its first place
DistinctRaws(es) ==
    LET firsts == {i \in UnparsedIdx(es) :
                      /\ es[i].raw # <<>>
                      /\ \A j \in UnparsedIdx(es) : j < i => es[j].raw # es[i].raw}
        order == Ascending(firsts)
    IN [k \in 1..Len(order) |-> es[order[k]].raw]

VolumeTerms(es) == IF VolumeIdx(es) # {} THEN 1 ELSE 0
UnitTerms(es) == Cardinality(UnitsOf(es))
RawTerms(es) == IF DistinctRaws(es) # <<>> THEN 1 ELSE 0
RawsOf(es) == [i \in 1..Len(es) |-> es[i].raw]
UnitTermOf(es, u) == frac_to_mixed_string(Lowest(UnitSum(es, u))) \o <<" ">> \o u

\* s starts with the literal l, then optional whitespace, then the unit token k
TokenEndsAt(s, i) == i > Len(s) \/ ~IsTokenChar(s[i])
LiteralThenUnit(s, l, k) ==
    /\ OccursAt(s, 1, l)
    /\ \E sep \in InputSeps :
           /\ OccursAt(s, Len(l) + 1, sep \o k)
           /\ TokenEndsAt(s, Len(l) + Len(sep) + Len(k) + 1)
StartsWithZeroDen(s) ==
    \E z \in ZeroDenLits : OccursAt(s, 1, z) /\ (Len(s) = Len(z) \/ ~IsDigit(s[Len(z) + 1]))

(***************************************************************************)
(* Claims                                                                  *)
(***************************************************************************)
\* C1: an amount that starts with a valid integer, decimal, fraction or mixed-number
\* literal followed by a unit token of the alias table parses to the literal's exact
\* value and to the alias table's unit for that token.
C1_ParseExactValue ==
    pc # "parse" =>
        \A L \in ValidLits, k \in AliasKeys :
            LiteralThenUnit(amount_str, L.text, k) =>
                /\ parsed.exc = "none"
                /\ parsed.qty = L.val
                /\ parsed.unit = UnitAliasesGet(k)

\* C2: parse_amount never raises; a literal the grammar matches but that has no value
\* (a zero denominator) gives an absent quantity, and the entry's raw string is what
\* consolidate_entries displays for it.
C2_ParseNeverRaises ==
    /\ pc # "raised"
    /\ (pc # "parse" /\ StartsWithZeroDen(amount_str)) =>
           (parsed.exc = "none" /\ parsed.qty = None)
    /\ (pc = "done" /\ StartsWithZeroDen(amount_str)) =>
           (raw_ones = <<amount_str>> /\ parts = <<amount_str>> /\ display_amount = amount_str)

C2_Witness ==
    /\ pc = "done"
    /\ amount_str = <<"3", "/", "0", " ", "c", "u", "p">>
    /\ entries[1].qty = None
    /\ display_amount = <<"3", "/", "0", " ", "c", "u", "p">>

\* C3: the volume term is format_tbsp_total of the exact sum of the volume entries in
\* tablespoons (16 per cup, 1 per tbsp, 1/3 per tsp); there is one volume term when
\* there is a volume entry and none otherwise.
C3_VolumeTermIsExactSum ==
    pc = "done" =>
        /\ Len(parts) = VolumeTerms(entries) + UnitTerms(entries) + RawTerms(entries)
        /\ VolumeIdx(entries) # {} =>
               parts[1] = format_tbsp_total(Lowest(ExactVolumeSum(entries)))
        /\ (VolumeIdx(entries) = {}) = (convertible_totals = <<>>)

C3_Witness ==
    /\ pc = "done"
    /\ RawsOf(entries) = << <<"2"," ","c","u","p","s">>, <<"4"," ","t","b","s","p">> >>
    /\ RatEq(ExactVolumeSum(entries), <<36, 1>>)
    /\ display_amount = <<"2"," ","1","/","4"," ","c","u","p">>

\* C4: when every entry is a volume entry, every permutation of the entries gives the
\* same display string.
C4_VolumeOrderIndependent ==
    (pc = "done" /\ VolumeIdx(entries) = 1..Len(entries)) =>
        \A f \in Permutations(1..Len(entries)) :
            consolidate_entries([i \in 1..Len(entries) |-> entries[f[i]]]).result
                = display_amount

C4_Witness ==
    /\ pc = "done"
    /\ RawsOf(entries) = << <<"2"," ","t","b","s","p">>, <<"3"," ","t","s","p">>,
                            <<"1"," ","c","u","p">> >>
    /\ display_amount = <<"1"," ","3","/","1","6"," ","c","u","p">>

\* C5: the volume total t (in tbsp) is shown in cups as t/16 when t >= 16, else in tbsp
\* as t when t >= 1, else in tsp as t*3; 16 gives "1 cup", 1 gives "1 tbsp" and 1/3
\* gives "1 tsp".
C5_DisplayUnitThresholds ==
    (pc = "done" /\ VolumeIdx(entries) # {}) =>
        LET t == ExactVolumeSum(entries)
            shown == parts[1]
        IN /\ t[1] >= 16 * t[2] =>
                  shown = frac_to_mixed_string(Frac(t[1], t[2] * 16)) \o <<" ">> \o cup
           /\ (t[1] < 16 * t[2] /\ t[1] >= t[2]) =>
                  shown = frac_to_mixed_string(Frac(t[1], t[2])) \o <<" ">> \o tbsp
           /\ t[1] < t[2] =>
                  shown = frac_to_mixed_string(Frac(t[1] * 3, t[2])) \o <<" ">> \o tsp
           /\ RatEq(t, <<16, 1>>) => shown = <<"1", " ", "c", "u", "p">>
           /\ RatEq(t, <<1, 1>>) => shown = <<"1", " ", "t", "b", "s", "p">>
           /\ RatEq(t, <<1, 3>>) => shown = <<"1", " ", "t", "s", "p">>

C5_Witness ==
    /\ pc = "done"
    /\ RawsOf(entries) = << <<"1"," ","t","s","p">>, <<"1"," ","t","s","p">>,
                            <<"1"," ","t","s","p">> >>
    /\ RatEq(ExactVolumeSum(entries), <<1, 1>>)
    /\ display_amount = <<"1", " ", "t", "b", "s", "p">>

\* C6: the entries with a quantity and a unit that is no volume unit are summed per
\* distinct unit: each such unit has exactly one term "<mixed(sum)> <unit>".
C6_UnitGroupsSummedPerUnit ==
    pc = "done" =>
        LET v == VolumeTerms(entries)
            n == UnitTerms(entries)
        IN /\ Len(same_unit_group) = n
           /\ Len(parts) >= v + n
           /\ \A u \in UnitsOf(entries) :
                  Cardinality({i \in 1..Len(parts) : parts[i] = UnitTermOf(entries, u)}) = 1
           /\ \A i \in (v + 1)..(v + n) :
                  \E u \in UnitsOf(entries) : parts[i] = UnitTermOf(entries, u)

C6_Witness ==
    /\ pc = "done"
    /\ RawsOf(entries) = << <<"1"," ","l","a","r","g","e"," ","e","g","g">>,
                            <<"2"," ","l","a","r","g","e"," ","e","g","g","s">> >>
    /\ display_amount = <<"3", " ", "l", "a", "r", "g", "e">>

C8_RawFallbackDeduplicated ==
    pc = "done" =>
        /\ raw_ones = [k \in 1..Cardinality(UnparsedIdx(entries)) |->
                          entries[Ascending(UnparsedIdx(entries))[k]].raw]
        /\ DistinctRaws(entries) # <<>> =>
               parts[Len(parts)] = join(PLUS, DistinctRaws(entries))
        /\ Len(parts) = VolumeTerms(entries) + UnitTerms(entries)
                            + (IF DistinctRaws(entries) # <<>> THEN 1 ELSE 0)
        /\ (VolumeIdx(entries) = {} /\ UnitIdx(entries) = {}) =>
               display_amount = join(PLUS, DistinctRaws(entries))

C8_Witness ==
    /\ pc = "done"
    /\ RawsOf(entries) = << <<"a"," ","p","i","n","c","h"," ","o","f"," ","s","a","l","t">>,
                            <<"a"," ","p","i","n","c","h"," ","o","f"," ","s","a","l","t">> >>
    /\ entries[1].qty = None /\ entries[1].unit = None
    /\ display_amount = <<"a"," ","p","i","n","c","h"," ","o","f"," ","s","a","l","t">>

\* C9: every entry goes to exactly one of the three groups, and an entry with a
\* quantity and a volume unit always goes to the volume total: to_tbsp gives a value
\* for it, so its raw text never reaches the fallback list.
C9_VolumeEntriesAlwaysConverted ==
    pc = "done" =>
        /\ Len(convertible_totals) = Cardinality(VolumeIdx(entries))
        /\ Len(raw_ones) = Cardinality(UnparsedIdx(entries))
        /\ {same_unit_group[i][1] : i \in 1..Len(same_unit_group)} = UnitsOf(entries)
        /\ Len(convertible_totals) + Cardinality(UnitIdx(entries)) + Len(raw_ones)
               = Len(entries)
        /\ \A i \in VolumeIdx(entries) : to_tbsp(entries[i].qty, entries[i].unit) # None

C9_Witness ==
    /\ pc = "done"
    /\ Len(entries) = 3
    /\ \E i \in VolumeIdx(entries) : entries[i].unit = tsp
    /\ \E i \in UnparsedIdx(entries) : entries[i].raw # <<>>
    /\ Len(convertible_totals) = 2
    /\ Len(raw_ones) = 1

\* every recipe of the plan is one of the current options of its day, a day has at most
\* two options, and a shopping list is built only while there are options
PlanWithinOptions ==
    /\ \A day \in DOMAIN meal_plan :
           /\ day \in DOMAIN options
           /\ \E i \in 1..Len(options[day]) : options[day][i] = meal_plan[day]
    /\ \A day \in DOMAIN options : Len(options[day]) <= 2
    /\ ShoppingListBuilt => DOMAIN options # {}

\* C10, as claimed: every recipe of meal_plan is one of the current options of its day
\* (at most two per day); Generate and Reset leave finalized false and meal_plan and
\* temp_selection empty; the plan becomes final only by Finalize.
C10_GenerateResetClearEverything ==
    /\ []PlanWithinOptions
    /\ [][/\ (GenerateMealPlan \/ Reset) =>
                 (finalized' = FALSE /\ DOMAIN meal_plan' = {}
                     /\ DOMAIN temp_selection' = {})
          /\ (~finalized /\ finalized') => Finalize]_vars

\* C10, amended: as claimed, except that Generate leaves in temp_selection the choice
\* shown for each day that has options (a title of that day's new options); only Reset
\* leaves temp_selection empty.
C10_PlanWithinCurrentOptions ==
    /\ []PlanWithinOptions
    /\ [][/\ Reset => (finalized' = FALSE /\ DOMAIN meal_plan' = {}
                          /\ DOMAIN temp_selection' = {})
          /\ GenerateMealPlan =>
                 /\ finalized' = FALSE
                 /\ DOMAIN meal_plan' = {}
                 /\ DOMAIN temp_selection' = {d \in DaySet : options'[d] # <<>>}
                 /\ \A d \in DOMAIN temp_selection' :
                        temp_selection'[d] \in TitleSet(options'[d])
          /\ (~finalized /\ finalized') => Finalize]_vars

C10_Witness ==
    /\ ShoppingListBuilt
    /\ DOMAIN meal_plan = {"sunday", "monday", "tuesday"}
    /\ meal_plan["sunday"] = options["sunday"][2]
    /\ temp_selection["sunday"] # meal_plan["sunday"].title

====
